---- MODULE Spec2Model ----
(***************************************************************************)
(* Model of yo's parallel file copy (src/src/yo.cpp): context::copy_file,  *)
(* its helpers open_file, open_file_or_in_subdir, extract_filename,        *)
(* stat_file, and the per-worker loop copy_chunk run on the thread pool.   *)
(*                                                                         *)
(* Files are sequences of bytes; byte offset o of a file f is f[o + 1].    *)
(* Paths are sequences of one-character strings.                           *)
(*                                                                         *)
(* The environment: every system call may fail; pread and pwrite may fail  *)
(* with EINTR/EAGAIN, and may transfer fewer bytes than asked for. A call  *)
(* on a closed descriptor fails with EBADF (the descriptor number is not   *)
(* reused). The executor (hadoken::thread_pool_executor) runs queued tasks *)
(* in submission order on a fixed number of threads; its futures do not    *)
(* block when destroyed, and its threads outlive a call of copy_file. The  *)
(* caller's options object outlives the tasks, and worker_count >= 1,      *)
(* block_size >= 1. Nobody else modifies the two files during the copy.    *)
(***************************************************************************)
EXTENDS Integers, Sequences, FiniteSets, TLC

\* ------------------------------------------------------------------ bounds
MaxSize    == 3   \* largest source file size, in bytes
MaxBlock   == 2   \* largest Options.block_size
MaxWorkers == 3   \* largest Options.worker_count
MaxPool    == 2   \* largest number of threads of the executor
MaxRetry   == 1   \* EINTR/EAGAIN results the kernel gives in one run
MaxPathLen == 3   \* longest source path drawn by InitPath
FairSize   == 2   \* largest source file size drawn by InitFair
FairWorkers == 2  \* largest Options.worker_count drawn by InitFair

VARIABLES
    opts,        \* options: [_threads, _block_size]
    src,         \* copy_file's src argument (a path)
    dst,         \* copy_file's dst argument (a path)
    src_data,    \* contents of the source file
    dst_data,    \* contents of the destination file (its size is Len)
    pool,        \* number of threads of _pimpl->executor
    pc,          \* position of the thread that called copy_file
    fd_src,      \* "none" | "open" | "closed"
    fd_dst,      \* "none" | "open" | "closed"
    dst_path,    \* the path the destination descriptor was opened on
    armed,       \* close_action (the defer_exec object) has been constructed
    size_file,   \* copy_file's size_file
    i,           \* the submit loop's i == futures.size()
    j,           \* number of futures the join loop has got
    task,        \* the worker tasks: worker index -> task record
    raised,      \* the exception leaving copy_file (NoExc when none)
    errno,       \* errno of the thread that called copy_file
    calls,       \* history: number of calls of each main-thread syscall
    dst_err1,    \* history: errno of the first attempt to open dst
    first_fail,  \* history: index of the task that failed first in time
    preads,      \* history: the <<offset, count>> of every pread issued
    pwrites      \* history: the <<offset, count>> of every pwrite issued

vars == << opts, src, dst, src_data, dst_data, pool, pc, fd_src, fd_dst,
           dst_path, armed, size_file, i, j, task, raised, errno, calls,
           dst_err1, first_fail, preads, pwrites >>

\* ----------------------------------------------------------------- helpers
Min(a, b) == IF a < b THEN a ELSE b
Max(a, b) == IF a > b THEN a ELSE b

NoErr == [what |-> "none", code |-> "none"]
NoExc == [what |-> "none", code |-> "none", task |-> -1]

\* std::system_error(errno, generic_category(), "[what]")
SystemError(what, code) == [what |-> what, code |-> code, task |-> -1]

\* ------------------------------------------------------- path resolution
Slash == "/"

\* std::string::rfind('/') : the last position holding c, 0 for npos
\* (positions are 1-based here, 0-based in the source).
RFind(s, c) ==
    LET hits == { p \in 1..Len(s) : s[p] = c }
    IN  IF hits = {} THEN 0 ELSE CHOOSE p \in hits : \A q \in hits : q <= p

\* extract_filename: src.substr(pos) from the last '/', that '/' included.
extract_filename(s) ==
    LET pos == RFind(s, Slash)
    IN  IF pos # 0 /\ pos - 1 < Len(s) THEN SubSeq(s, pos, Len(s)) ELSE s

\* fmt::scat(dst + '/' + filename)
SubdirPath(d, filename) == d \o << Slash >> \o filename

\* the catch clause of open_file_or_in_subdir: only EISDIR is not rethrown
IsDirErrorAny(code) == TRUE
IsDirError(code) == code = "EISDIR"

\* ------------------------------------------------------------ file model
\* ftruncate(fd, len): cut, or extend with zero bytes.
TruncateSkip(f, len) == f
Truncate(f, len) == [ k \in 1..len |-> IF k <= Len(f) THEN f[k] ELSE 0 ]

\* pwrite(fd, buf, count, offset) that transferred the bytes of data.
WriteAtEnd(f, offset, data) == f \o data
WriteAt(f, offset, data) ==
    [ k \in 1..Max(Len(f), offset + Len(data)) |->
        IF k > offset /\ k <= offset + Len(data) THEN data[k - offset]
        ELSE IF k <= Len(f) THEN f[k] ELSE 0 ]

\* The number of bytes a pread of count bytes at offset may transfer: any
\* positive number up to count, limited by the end of the file; 0 at the
\* end of the file and for a count of 0.
PreadCounts(f, offset, count) ==
    LET avail == Len(f) - offset
    IN  IF avail <= 0 \/ count = 0 THEN {0} ELSE 1..Min(count, avail)

\* The number of bytes a pwrite of count bytes may transfer.
PwriteCounts(count) == IF count = 0 THEN {0} ELSE 1..count

\* ---------------------------------------------------------- partitioning
\* const std::size_t worker_block = size_file / n_workers;
worker_block_ceil(size, n) == (size + n - 1) \div n
worker_block(size, n) == size \div n

\* std::size_t worker_offset = i * worker_block;
worker_offset_zero(w, size, n) == 0
worker_offset(w, size, n) == w * worker_block(size, n)

\* read_size: the last worker takes what is left, the others worker_block.
read_size_even(w, size, n) ==
    ((w + 1) * worker_block(size, n)) - worker_offset(w, size, n)
read_size(w, size, n) ==
    IF w + 1 = n THEN size - worker_offset(w, size, n)
    ELSE ((w + 1) * worker_block(size, n)) - worker_offset(w, size, n)

\* ------------------------------------------------------------------ tasks
\* A task is the closure given to twoway_execute together with the locals
\* of the copy_chunk call it makes and the state of its future:
\*   state  "none" (not submitted), "queued", "pread", "pwrite" (inside
\*          copy_chunk, about to make that call), "done", "failed"
\*   short  history: some pread or pwrite of the task transferred fewer
\*          bytes than it asked for
NoTask == [ state |-> "none", worker_offset |-> 0, read_size |-> 0,
            offset |-> 0, size |-> 0, buffer |-> << >>, retries |-> 0,
            short |-> FALSE, err |-> NoErr ]

\* the lambda's captures [&opts, fd_dst, fd_src, worker_offset, read_size]
Closure(w, size, n) ==
    [ NoTask EXCEPT !.state = "queued",
                    !.worker_offset = worker_offset(w, size, n),
                    !.read_size = read_size(w, size, n) ]

LoopTestAlways(t) == [ t EXCEPT !.state = "pread" ]
\* while(size > 0)
LoopTest(t) == [ t EXCEPT !.state = IF t.size > 0 THEN "pread" ELSE "done" ]

\* entry of copy_chunk: the arguments, std::vector<char> buffer(chunk_size)
EnterUntested(t, chunk_size) ==
    [ t EXCEPT !.state = "pread", !.offset = t.worker_offset,
               !.size = t.read_size,
               !.buffer = [ k \in 1..chunk_size |-> 0 ] ]
Enter(t, chunk_size) ==
    LoopTest([ t EXCEPT !.offset = t.worker_offset, !.size = t.read_size,
                        !.buffer = [ k \in 1..chunk_size |-> 0 ] ])

\* const std::size_t r_size = std::min(size, chunk_size);
r_size_block(t, chunk_size) == chunk_size
r_size(t, chunk_size) == Min(t.size, chunk_size)

\* errno == EINTR || errno == EAGAIN : continue, the same call again
RetrySkipping(t, chunk_size) ==
    [ t EXCEPT !.retries = @ + 1, !.offset = @ + r_size(t, chunk_size) ]
Retry(t, chunk_size) == [ t EXCEPT !.retries = @ + 1 ]

\* a pread that returned n >= 0: n bytes of the file are in the buffer
AfterPread(t, f, n, chunk_size) ==
    [ t EXCEPT !.state = "pwrite",
               !.short = @ \/ n < r_size(t, chunk_size),
               !.buffer = [ k \in 1..Len(t.buffer) |->
                              IF k <= n THEN f[t.offset + k] ELSE t.buffer[k] ] ]

\* offset += r_size; size -= r_size; and the loop test
AfterPwrite(t, m, chunk_size) ==
    LoopTest([ t EXCEPT !.short = @ \/ m < r_size(t, chunk_size),
                        !.offset = @ + r_size(t, chunk_size),
                        !.size = @ - r_size(t, chunk_size) ])

\* throw std::system_error(errno, ..., "[pread]") out of the task
Fail(t, what, code) ==
    [ t EXCEPT !.state = "failed", !.err = [what |-> what, code |-> code] ]

\* for(auto & f : futures): the k-th get is on futures[k]
JoinOrderReversed(k, n) == n - 1 - k
JoinOrder(k, n) == k

\* f.get(): rethrows the exception the task ended with, if any
FutureGetSwallow(t, w) == NoExc
FutureGet(t, w) ==
    IF t.state = "failed"
    THEN [what |-> t.err.what, code |-> t.err.code, task |-> w]
    ELSE NoExc

Workers == 0..(opts._threads - 1)
Running == { w \in Workers : task[w].state \in {"pread", "pwrite"} }
Finished(t) == t.state \in {"done", "failed"}

RECURSIVE SumRetries(_)
SumRetries(W) ==
    IF W = {} THEN 0
    ELSE LET w == CHOOSE x \in W : TRUE
         IN  task[w].retries + SumRetries(W \ {w})

\* ------------------------------------------------------------------- Init
\* A source file of s bytes, each byte different from every other and from
\* the zero bytes that ftruncate and a fresh buffer hold.
SourceFile(s) == [ k \in 1..s |-> k ]

\* The destination before the copy: absent or empty, or an older and longer
\* file (O_WRONLY | O_CREAT does not truncate it).
OldFiles == { << >>, [ k \in 1..(MaxSize + 1) |-> -1 ] }

InitJob ==
    /\ pool \in 1..MaxPool
    /\ pc = "open_src"
    /\ fd_src = "none"
    /\ fd_dst = "none"
    /\ dst_path = << >>
    /\ armed = FALSE
    /\ size_file = 0
    /\ i = 0
    /\ j = 0
    /\ task = [ w \in 0..(opts._threads - 1) |-> NoTask ]
    /\ raised = NoExc
    /\ errno = "none"
    /\ calls = [ open_src |-> 0, open_dst |-> 0, fstat |-> 0, ftruncate |-> 0,
                 close_src |-> 0, close_dst |-> 0 ]
    /\ dst_err1 = "none"
    /\ first_fail = -1
    /\ preads = {}
    /\ pwrites = {}

Init ==
    /\ opts \in [ _threads : 1..MaxWorkers, _block_size : 1..MaxBlock ]
    /\ src = << "/", "a", "/", "c" >>
    /\ dst = << "/", "t" >>
    /\ src_data \in { SourceFile(s) : s \in 0..MaxSize }
    /\ dst_data \in OldFiles
    /\ InitJob

\* The paths of at most MaxPathLen characters over '/' and one letter.
Paths ==
    UNION { [ 1..k -> { Slash, "a" } ] : k \in 1..MaxPathLen }

\* Init for the path resolution: every source path of Paths, with one
\* one-byte file copied by one worker.
InitPath ==
    /\ opts = [ _threads |-> 1, _block_size |-> 1 ]
    /\ src \in Paths
    /\ dst = << "/", "t" >>
    /\ src_data = SourceFile(1)
    /\ dst_data = << >>
    /\ InitJob

\* Init for the runs under fairness: as Init, with smaller files and fewer
\* workers.
InitFair ==
    /\ opts \in [ _threads : 1..FairWorkers, _block_size : 1..MaxBlock ]
    /\ src = << "/", "a", "/", "c" >>
    /\ dst = << "/", "t" >>
    /\ src_data \in { SourceFile(s) : s \in 0..FairSize }
    /\ dst_data \in OldFiles
    /\ InitJob

\* ------------------------------------------------- copy_file, main thread
\* An exception leaves copy_file's body: close_action runs if constructed.
ThrowAndGoOn(e) ==
    /\ raised' = e
    /\ pc' = IF armed THEN "submit" ELSE "raised"
Throw(e) ==
    /\ raised' = e
    /\ pc' = IF armed THEN "close_src" ELSE "raised"

\* A system call of the calling thread returns r: "ok", or -1 with errno r.
SetErrno(r) == errno' = IF r = "ok" THEN errno ELSE r

\* int fd_src = open_file(src, O_RDONLY);
OpenSrc ==
    /\ pc = "open_src"
    /\ calls' = [ calls EXCEPT !.open_src = @ + 1 ]
    /\ \E r \in {"ok", "ENOENT"} :
         /\ SetErrno(r)
         /\ IF r = "ok"
            THEN /\ fd_src' = "open"
                 /\ pc' = "open_dst"
                 /\ UNCHANGED raised
            ELSE /\ Throw(SystemError("open", r))
                 /\ UNCHANGED fd_src
    /\ UNCHANGED << opts, src, dst, src_data, dst_data, pool, fd_dst, dst_path,
                    armed, size_file, i, j, task, dst_err1, first_fail,
                    preads, pwrites >>

\* open_file_or_in_subdir, the try block: open_file(dst, mode)
OpenDst ==
    /\ pc = "open_dst"
    /\ calls' = [ calls EXCEPT !.open_dst = @ + 1 ]
    /\ dst_path' = dst
    /\ \E r \in {"ok", "EISDIR", "EACCES"} :
         /\ SetErrno(r)
         /\ dst_err1' = r
         /\ IF r = "ok"
            THEN /\ fd_dst' = "open"
                 /\ armed' = TRUE
                 /\ pc' = "fstat"
                 /\ UNCHANGED raised
            ELSE IF IsDirError(r)
            THEN /\ pc' = "open_sub"
                 /\ UNCHANGED << fd_dst, armed, raised >>
            ELSE /\ Throw(SystemError("open", r))
                 /\ UNCHANGED << fd_dst, armed >>
    /\ UNCHANGED << opts, src, dst, src_data, dst_data, pool, fd_src,
                    size_file, i, j, task, first_fail, preads, pwrites >>

\* open_file_or_in_subdir, after the catch: open_file(dst + '/' + filename)
OpenSub ==
    /\ pc = "open_sub"
    /\ calls' = [ calls EXCEPT !.open_dst = @ + 1 ]
    /\ dst_path' = SubdirPath(dst, extract_filename(src))
    /\ \E r \in {"ok", "EISDIR", "EACCES"} :
         /\ SetErrno(r)
         /\ IF r = "ok"
            THEN /\ fd_dst' = "open"
                 /\ armed' = TRUE
                 /\ pc' = "fstat"
                 /\ UNCHANGED raised
            ELSE /\ Throw(SystemError("open", r))
                 /\ UNCHANGED << fd_dst, armed >>
    /\ UNCHANGED << opts, src, dst, src_data, dst_data, pool, fd_src,
                    size_file, i, j, task, dst_err1, first_fail, preads,
                    pwrites >>

\* struct stat st = stat_file(fd_src); size_file = st.st_size;
StatFile ==
    /\ pc = "fstat"
    /\ calls' = [ calls EXCEPT !.fstat = @ + 1 ]
    /\ \E r \in {"ok", "EIO"} :
         /\ SetErrno(r)
         /\ IF r = "ok"
            THEN /\ size_file' = Len(src_data)
                 /\ pc' = "ftruncate"
                 /\ UNCHANGED raised
            ELSE /\ Throw(SystemError("fstat", r))
                 /\ UNCHANGED size_file
    /\ UNCHANGED << opts, src, dst, src_data, dst_data, pool, fd_src, fd_dst,
                    dst_path, armed, i, j, task, dst_err1, first_fail,
                    preads, pwrites >>

\* if( ftruncate(fd_dst, size_file) < 0) throw ...
Ftruncate ==
    /\ pc = "ftruncate"
    /\ calls' = [ calls EXCEPT !.ftruncate = @ + 1 ]
    /\ \E r \in {"ok", "EIO"} :
         /\ SetErrno(r)
         /\ IF r = "ok"
            THEN /\ dst_data' = Truncate(dst_data, size_file)
                 /\ pc' = "submit"
                 /\ UNCHANGED raised
            ELSE /\ Throw(SystemError("ftruncate", r))
                 /\ UNCHANGED dst_data
    /\ UNCHANGED << opts, src, dst, src_data, pool, fd_src, fd_dst, dst_path,
                    armed, size_file, i, j, task, dst_err1, first_fail,
                    preads, pwrites >>

\* one iteration of for(i = 0; i < n_workers; ++i): futures.emplace_back(
\* executor.twoway_execute(...)); the task joins the executor's queue.
Submit ==
    /\ pc = "submit"
    /\ i < opts._threads
    /\ task' = [ task EXCEPT ![i] = Closure(i, size_file, opts._threads) ]
    /\ i' = i + 1
    /\ pc' = IF i + 1 < opts._threads THEN "submit" ELSE "join"
    /\ UNCHANGED errno
    /\ UNCHANGED << opts, src, dst, src_data, dst_data, pool, fd_src, fd_dst,
                    dst_path, armed, size_file, j, raised, calls, dst_err1,
                    first_fail, preads, pwrites >>

\* one iteration of for(auto & f : futures) f.get(): blocks until the task
\* has finished, then rethrows its exception or goes on to the next future.
Get ==
    /\ pc = "join"
    /\ LET w == JoinOrder(j, opts._threads)
           e == FutureGet(task[w], w)
       IN  /\ Finished(task[w])
           /\ IF e # NoExc
              THEN /\ Throw(e)
                   /\ UNCHANGED j
              ELSE /\ j' = j + 1
                   /\ pc' = IF j + 1 < opts._threads THEN "join" ELSE "close_src"
                   /\ UNCHANGED raised
    /\ UNCHANGED errno
    /\ UNCHANGED << opts, src, dst, src_data, dst_data, pool, fd_src, fd_dst,
                    dst_path, armed, size_file, i, task, calls, dst_err1,
                    first_fail, preads, pwrites >>

\* ~defer_exec: close(fd_src);
CloseSrc ==
    /\ pc = "close_src"
    /\ fd_src' = "closed"
    /\ calls' = [ calls EXCEPT !.close_src = @ + 1 ]
    /\ pc' = "close_dst"
    /\ UNCHANGED errno
    /\ UNCHANGED << opts, src, dst, src_data, dst_data, pool, fd_dst, dst_path,
                    armed, size_file, i, j, task, raised, dst_err1, first_fail,
                    preads, pwrites >>

\* ~defer_exec: close(fd_dst); then copy_file returns or the exception
\* reaches the caller.
CloseDst ==
    /\ pc = "close_dst"
    /\ fd_dst' = "closed"
    /\ calls' = [ calls EXCEPT !.close_dst = @ + 1 ]
    /\ pc' = IF raised = NoExc THEN "returned" ELSE "raised"
    /\ UNCHANGED errno
    /\ UNCHANGED << opts, src, dst, src_data, dst_data, pool, fd_src, dst_path,
                    armed, size_file, i, j, task, raised, dst_err1, first_fail,
                    preads, pwrites >>

\* --------------------------------------------- the executor's threads
\* A free thread of the pool takes the oldest queued task and enters
\* copy_chunk(opts, fd_dst, fd_src, worker_offset, read_size).
Start(w) ==
    /\ task[w].state = "queued"
    /\ \A k \in Workers : k < w => task[k].state # "queued"
    /\ Cardinality(Running) < pool
    /\ task' = [ task EXCEPT ![w] = Enter(@, opts._block_size) ]
    /\ UNCHANGED errno
    /\ UNCHANGED << opts, src, dst, src_data, dst_data, pool, pc, fd_src,
                    fd_dst, dst_path, armed, size_file, i, j, raised, calls,
                    dst_err1, first_fail, preads, pwrites >>

\* The task's exception is stored in its future.
TaskThrows(w, what, code) ==
    /\ task' = [ task EXCEPT ![w] = Fail(@, what, code) ]
    /\ first_fail' = IF first_fail = -1 THEN w ELSE first_fail

\* pread(fd_src, buffer.data(), r_size, offset) returns n >= 0
Pread(w) ==
    /\ task[w].state = "pread"
    /\ fd_src = "open"
    /\ preads' = preads \cup
                 { << task[w].offset, r_size(task[w], opts._block_size) >> }
    /\ \E n \in PreadCounts(src_data, task[w].offset,
                            r_size(task[w], opts._block_size)) :
         task' = [ task EXCEPT
                     ![w] = AfterPread(@, src_data, n, opts._block_size) ]
    /\ UNCHANGED errno
    /\ UNCHANGED << opts, src, dst, src_data, dst_data, pool, pc, fd_src,
                    fd_dst, dst_path, armed, size_file, i, j, raised, calls,
                    dst_err1, first_fail, pwrites >>

\* pread returns -1 with errno EINTR or EAGAIN: continue
PreadInterrupted(w) ==
    /\ task[w].state = "pread"
    /\ fd_src = "open"
    /\ SumRetries(Workers) < MaxRetry
    /\ preads' = preads \cup
                 { << task[w].offset, r_size(task[w], opts._block_size) >> }
    /\ task' = [ task EXCEPT ![w] = Retry(@, opts._block_size) ]
    /\ UNCHANGED errno
    /\ UNCHANGED << opts, src, dst, src_data, dst_data, pool, pc, fd_src,
                    fd_dst, dst_path, armed, size_file, i, j, raised, calls,
                    dst_err1, first_fail, pwrites >>

\* pread returns -1 with another errno (EBADF once the descriptor is closed)
PreadFails(w) ==
    /\ task[w].state = "pread"
    /\ preads' = preads \cup
                 { << task[w].offset, r_size(task[w], opts._block_size) >> }
    /\ TaskThrows(w, "pread", IF fd_src = "open" THEN "EIO" ELSE "EBADF")
    /\ UNCHANGED errno
    /\ UNCHANGED << opts, src, dst, src_data, dst_data, pool, pc, fd_src,
                    fd_dst, dst_path, armed, size_file, i, j, raised, calls,
                    dst_err1, pwrites >>

\* pwrite(fd_dst, buffer.data(), r_size, offset) returns m >= 0;
\* then offset += r_size; size -= r_size;
Pwrite(w) ==
    /\ task[w].state = "pwrite"
    /\ fd_dst = "open"
    /\ pwrites' = pwrites \cup
                  { << task[w].offset, r_size(task[w], opts._block_size) >> }
    /\ \E m \in PwriteCounts(r_size(task[w], opts._block_size)) :
         /\ dst_data' = WriteAt(dst_data, task[w].offset,
                                SubSeq(task[w].buffer, 1, m))
         /\ task' = [ task EXCEPT ![w] = AfterPwrite(@, m, opts._block_size) ]
    /\ UNCHANGED errno
    /\ UNCHANGED << opts, src, dst, src_data, pool, pc, fd_src, fd_dst,
                    dst_path, armed, size_file, i, j, raised, calls, dst_err1,
                    first_fail, preads >>

\* pwrite returns -1 with errno EINTR or EAGAIN: continue
PwriteInterrupted(w) ==
    /\ task[w].state = "pwrite"
    /\ fd_dst = "open"
    /\ SumRetries(Workers) < MaxRetry
    /\ pwrites' = pwrites \cup
                  { << task[w].offset, r_size(task[w], opts._block_size) >> }
    /\ task' = [ task EXCEPT ![w] = Retry(@, opts._block_size) ]
    /\ UNCHANGED errno
    /\ UNCHANGED << opts, src, dst, src_data, dst_data, pool, pc, fd_src,
                    fd_dst, dst_path, armed, size_file, i, j, raised, calls,
                    dst_err1, first_fail, preads >>

\* pwrite returns -1 with another errno (EBADF once the descriptor is closed)
PwriteFails(w) ==
    /\ task[w].state = "pwrite"
    /\ pwrites' = pwrites \cup
                  { << task[w].offset, r_size(task[w], opts._block_size) >> }
    /\ TaskThrows(w, "pwrite", IF fd_dst = "open" THEN "EIO" ELSE "EBADF")
    /\ UNCHANGED errno
    /\ UNCHANGED << opts, src, dst, src_data, dst_data, pool, pc, fd_src,
                    fd_dst, dst_path, armed, size_file, i, j, raised, calls,
                    dst_err1, preads >>

\* ------------------------------------------------------- specifications
Next ==
    \/ OpenSrc
    \/ OpenDst
    \/ OpenSub
    \/ StatFile
    \/ Ftruncate
    \/ Submit
    \/ Get
    \/ CloseSrc
    \/ CloseDst
    \/ \E w \in Workers : Start(w)
    \/ \E w \in Workers : Pread(w)
    \/ \E w \in Workers : PreadInterrupted(w)
    \/ \E w \in Workers : PreadFails(w)
    \/ \E w \in Workers : Pwrite(w)
    \/ \E w \in Workers : PwriteInterrupted(w)
    \/ \E w \in Workers : PwriteFails(w)

Spec == Init /\ [][Next]_vars

SpecPath == InitPath /\ [][Next]_vars

\* The operating system schedules every thread that can take a step, and
\* every system call returns: some enabled step is eventually taken.
FairSpec == InitFair /\ [][Next]_vars /\ WF_vars(Next)

\* ------------------------------------------------------------- claims
n_workers == opts._threads
Submitted == { w \in Workers : task[w].state # "none" }
Failed == { w \in Workers : task[w].state = "failed" }
RangeEnd(t) == t.worker_offset + t.read_size

\* the bytes of f at offsets [from, to)
Bytes(f, from, to) == [ o \in from..(to - 1) |-> f[o + 1] ]

\* C1: when copy_file returns without raising, the destination has the
\* source's size and the same bytes, whatever the workers' interleaving.
C1_DestinationIdentical ==
    pc = "returned" => dst_data = src_data

\* C2: once a task's failure propagates out of copy_file, every dispatched
\* task has finished (completed or failed): none is pending or running.
C2_RaisesAfterAllFinished ==
    raised.task # -1 => \A w \in Submitted : Finished(task[w])

\* C3: when copy_file has returned or raised, every descriptor it opened
\* has been closed exactly once, whichever step failed.
C3_ClosedExactlyOnce ==
    pc \in {"returned", "raised"} =>
        /\ calls.open_src > 0 /\ fd_src # "none"
             => fd_src = "closed" /\ calls.close_src = 1
        /\ fd_dst # "none" => fd_dst = "closed" /\ calls.close_dst = 1

\* C4: the ranges of the submit loop are sorted by offset and contiguous
\* from 0, hence pairwise disjoint, and once the loop has ended they number
\* worker_count and end at total_size: their union is [0, total_size).
C4_Partition ==
    /\ \A w \in Workers :
         w < i =>
            /\ task[w].state # "none"
            /\ task[w].read_size >= 0
            /\ task[w].worker_offset =
                 IF w = 0 THEN 0 ELSE RangeEnd(task[w - 1])
    /\ \A v, w \in Workers :
         v < w /\ w < i => RangeEnd(task[v]) <= task[w].worker_offset
    /\ pc \in {"join", "close_src", "close_dst", "returned", "raised"}
       /\ calls.ftruncate = 1 /\ i > 0
         => /\ i = n_workers
            /\ Cardinality(Submitted) = n_workers
            /\ RangeEnd(task[n_workers - 1]) = Len(src_data)

C4_Witness ==
    /\ pc = "join"
    /\ n_workers >= 2
    /\ Len(src_data) % n_workers # 0

\* copy_file has not returned normally past a failed task
C5_NoNormalReturn ==
    pc = "returned" => Failed = {}

\* a step of the calling thread other than the pre-sizing leaves the
\* destination as it is
C5_NoRollback ==
    << pc, i, j >>' # << pc, i, j >> /\ pc # "ftruncate"
        => dst_data' = dst_data

\* C5: a task that failed makes copy_file raise, never return normally,
\* and no step of copy_file after the pre-sizing touches the destination:
\* what the workers wrote stays as written.
C5_FailureRaises == [] C5_NoNormalReturn /\ [][C5_NoRollback]_vars

C5_Witness ==
    /\ pc = "raised"
    /\ raised.task # -1
    /\ pwrites # {}
    /\ dst_data # src_data

\* C6, as claimed: the failure copy_file reports is that of the task that
\* failed first in time.
C6_FirstInTime ==
    raised.task # -1 => raised.task = first_fail

\* C6, amended: the failure copy_file reports is that of the failed task
\* with the lowest index (the first in the order of the futures): every
\* task before it has completed without failing.
C6_LowestIndex ==
    raised.task # -1 =>
        /\ raised.task \in Failed
        /\ raised.what = task[raised.task].err.what
        /\ raised.code = task[raised.task].err.code
        /\ \A k \in Workers : k < raised.task => task[k].state = "done"

C6_Witness ==
    /\ raised.task # -1
    /\ first_fail # raised.task
    /\ Cardinality(Failed) >= 2

\* C7: once a task has been submitted or a pwrite issued, the destination
\* has the source's size, and no pwrite reaches beyond that size.
C7_PresizedBeforeWrites ==
    /\ Submitted # {} \/ pwrites # {} => Len(dst_data) = Len(src_data)
    /\ \A c \in pwrites : c[1] + c[2] <= Len(src_data)

C7_Witness ==
    /\ pwrites # {}
    /\ \E w \in Workers : task[w].state = "queued"

\* the <<offset, count>> of the steps of an uninterrupted copy_chunk call
\* on the task's range
StepsOf(t) ==
    IF t.read_size = 0 THEN {}
    ELSE { << t.worker_offset + k * opts._block_size,
              Min(opts._block_size, t.read_size - k * opts._block_size) >> :
           k \in 0..((t.read_size - 1) \div opts._block_size) }

\* the calls issued are those of an uninterrupted task, and a finished task
\* whose calls transferred all they asked for has copied its range
C8_CallsAsUninterrupted ==
    /\ preads \cup pwrites \subseteq UNION { StepsOf(task[w]) : w \in Workers }
    /\ \A w \in Workers :
         task[w].state = "done" =>
            /\ StepsOf(task[w]) \subseteq preads \cap pwrites
            /\ ~ task[w].short =>
                 Bytes(dst_data, task[w].worker_offset, RangeEnd(task[w]))
                   = Bytes(src_data, task[w].worker_offset, RangeEnd(task[w]))

\* a step that retries a call changes nothing else of the task, nor the
\* destination
C8_RetryKeepsState ==
    \A w \in Workers :
        task'[w].retries # task[w].retries =>
            /\ task'[w] = [ task[w] EXCEPT !.retries = @ + 1 ]
            /\ dst_data' = dst_data

\* C8: an interrupted pread or pwrite is retried with the same offset,
\* remaining size and buffer; the calls issued are those of an
\* uninterrupted task, and a task that was interrupted and whose calls
\* then transferred all they asked for has copied its range.
C8_RetrySameCall == [] C8_CallsAsUninterrupted /\ [][C8_RetryKeepsState]_vars

C8_Witness ==
    \E w \in Workers :
        /\ task[w].state = "done"
        /\ task[w].retries > 0
        /\ task[w].read_size > opts._block_size
        /\ ~ task[w].short

\* basename as the claim defines it: what follows the last '/' of the
\* path, the whole path when it has none
Basename(s) ==
    IF RFind(s, Slash) = 0 THEN s ELSE SubSeq(s, RFind(s, Slash) + 1, Len(s))

\* C9: the destination descriptor is opened on dst when dst opens, and on
\* dst + '/' + basename(src) when dst is a directory.
C9_ResolvedPath ==
    fd_dst # "none" =>
        dst_path = IF dst_err1 = "ok" THEN dst
                   ELSE dst \o << Slash >> \o Basename(src)

\* C10: when an open fails for good, the exception carries that open's
\* errno, and no fstat, ftruncate, pread, pwrite or submission has taken
\* place or takes place; src is opened once, dst at most twice, and the
\* second time only after EISDIR.
C10_OpenFailurePropagates ==
    /\ raised.what = "open" =>
         /\ raised.code = errno
         /\ pc = "raised"
         /\ calls.fstat = 0 /\ calls.ftruncate = 0
         /\ preads = {} /\ pwrites = {}
         /\ Submitted = {} /\ i = 0
    /\ calls.open_src <= 1
    /\ calls.open_dst <= 2
    /\ calls.open_dst = 2 \/ pc = "open_sub" => dst_err1 = "EISDIR"
    /\ calls.open_src = 1 /\ fd_src = "none" => raised.what = "open"
    /\ calls.open_dst = 1 /\ dst_err1 \notin {"ok", "EISDIR"}
         => raised.what = "open" /\ raised.code = dst_err1

C10_Witness ==
    /\ pc = "raised"
    /\ raised.what = "open"
    /\ dst_err1 = "EACCES"

\* C11: when fstat or ftruncate fails, copy_file raises before the submit
\* loop: no task has been or is ever submitted, and no pread or pwrite is
\* ever issued.
C11_PresizeFailureBeforeDispatch ==
    raised.what \in {"fstat", "ftruncate"} =>
        /\ pc \in {"close_src", "close_dst", "raised"}
        /\ Submitted = {} /\ i = 0
        /\ preads = {} /\ pwrites = {}
        /\ raised.code = errno

C11_Witness ==
    /\ pc = "raised"
    /\ raised.what = "ftruncate"
    /\ calls.fstat = 1 /\ calls.ftruncate = 1

\* C12: with more workers than bytes some range is empty; a task with an
\* empty range never reaches a pread or pwrite and never fails, and once
\* started it is done; no call of a zero count is issued, and the tasks of
\* an empty file issue no call at all and none fails.
C12_EmptyRangeNoIO ==
    /\ i = n_workers /\ n_workers > size_file =>
         \E w \in Workers : task[w].read_size = 0
    /\ \A w \in Workers :
         task[w].state # "none" /\ task[w].read_size = 0 =>
            /\ task[w].state \in {"queued", "done"}
            /\ task[w].buffer = << >> \/ task[w].buffer = [ k \in 1..opts._block_size |-> 0 ]
    /\ \A c \in preads \cup pwrites : c[2] > 0
    /\ Len(src_data) = 0 =>
         /\ preads = {} /\ pwrites = {}
         /\ Failed = {} /\ raised.task = -1

C12_Witness ==
    /\ pc = "returned"
    /\ Len(src_data) = 0
    /\ n_workers >= 2
    /\ \A w \in Workers : task[w].state = "done"

Terminated == pc \in {"returned", "raised"}

\* copy_file has returned normally only with every task completed
C13_ReturnsAfterAll ==
    pc = "returned" =>
        /\ j = n_workers
        /\ \A w \in Workers : task[w].state = "done"

\* C13: with every call returning and finitely many EINTR/EAGAIN results,
\* copy_file eventually returns or raises, every submitted task eventually
\* completes or fails whatever the number of pool threads, and copy_file
\* returns normally only after all its tasks have completed.
C13_Terminates ==
    /\ [] C13_ReturnsAfterAll
    /\ <> Terminated
    /\ \A w \in 0..(FairWorkers - 1) :
         (w \in Workers /\ task[w].state # "none")
            ~> (w \in Workers /\ Finished(task[w]))

C13_Witness ==
    /\ pc = "returned"
    /\ pool < n_workers
    /\ SumRetries(Workers) > 0
    /\ \A w \in Workers : task[w].read_size > 0

\* the destination offsets of a task's range
RangeOf(t) == t.worker_offset..(RangeEnd(t) - 1)

\* the offsets of the call a task inside copy_chunk is about to make
CallOf(t) == t.offset..(t.offset + Min(t.size, opts._block_size) - 1)

\* C14: the ranges of different tasks share no byte and every call of a
\* task lies in its own range, so no two tasks write the same destination
\* byte; whatever the interleaving, once all tasks have completed with
\* every call transferring what it asked for, the destination is the
\* source.
C14_DisjointWritesCommute ==
    /\ \A v, w \in Submitted : v # w => RangeOf(task[v]) \cap RangeOf(task[w]) = {}
    /\ \A w \in Workers :
         task[w].state \in {"pread", "pwrite"} => CallOf(task[w]) \subseteq RangeOf(task[w])
    /\ (\A w \in Workers : task[w].state = "done" /\ ~ task[w].short)
         => dst_data = src_data

C14_Witness ==
    /\ \A w \in Workers : task[w].state = "done" /\ ~ task[w].short
    /\ Cardinality({ w \in Workers : task[w].read_size > 0 }) >= 2
    /\ pool >= 2

\* a task's position in its range is consistent with the loop of copy_chunk
C15_LoopState ==
    \A w \in Workers :
        task[w].state \in {"pread", "pwrite", "done", "failed"} =>
           /\ task[w].offset + task[w].size = RangeEnd(task[w])
           /\ task[w].offset >= task[w].worker_offset
           /\ task[w].size >= 0
           /\ task[w].state = "done" <=> task[w].size = 0
           /\ task[w].state = "pwrite" =>
                << task[w].offset, Min(task[w].size, opts._block_size) >> \in preads

\* a step that moves a task's offset is a pwrite of step bytes at the old
\* offset, after a pread of step bytes there, with 0 < step <= block_size
C15_StepAdvance ==
    \A w \in Workers :
        task'[w].offset # task[w].offset /\ task[w].state # "queued" =>
           LET step == Min(task[w].size, opts._block_size)
           IN  /\ task[w].state = "pwrite"
               /\ step > 0 /\ step <= opts._block_size
               /\ task'[w].offset = task[w].offset + step
               /\ task'[w].size = task[w].size - step
               /\ << task[w].offset, step >> \in preads \cap pwrites'

\* C15: each step of copy_chunk reads and writes step = min(remaining,
\* block_size) bytes at the current offset, then advances offset and
\* decreases remaining by step: offsets strictly increase, offset +
\* remaining stays the end of the range, and the loop ends exactly when
\* remaining is 0.
C15_ChunkLoop == [] C15_LoopState /\ [][C15_StepAdvance]_vars

C15_Witness ==
    \E w \in Workers :
        /\ task[w].state = "done"
        /\ task[w].read_size > opts._block_size
        /\ task[w].read_size % opts._block_size # 0

\* C16: the executor that runs the tasks of a copy_file call with
\* worker_count = N has exactly N threads.
C16_PoolSizedByWorkerCount ==
    Submitted # {} => pool = n_workers

\* C17: with base = total_size / worker_count, worker w starts at w * base,
\* every worker but the last has length base, and the last has
\* total_size - (worker_count - 1) * base, at most worker_count - 1 more
\* than base.
C17_BaseAndRemainder ==
    \A w \in Submitted :
        LET base == Len(src_data) \div n_workers
        IN  /\ task[w].worker_offset = w * base
            /\ w + 1 < n_workers => task[w].read_size = base
            /\ w + 1 = n_workers =>
                 /\ task[w].read_size = Len(src_data) - (n_workers - 1) * base
                 /\ task[w].read_size - base >= 0
                 /\ task[w].read_size - base <= n_workers - 1

C17_Witness ==
    /\ n_workers >= 3
    /\ Submitted = Workers
    /\ task[n_workers - 1].read_size
         = (Len(src_data) \div n_workers) + n_workers - 1

\* C18: a descriptor is closed only when no submitted task can still use
\* it, and no task's pread or pwrite meets a closed descriptor.
C18_NoUseAfterClose ==
    /\ fd_src = "closed" \/ fd_dst = "closed" =>
         \A w \in Submitted : Finished(task[w])
    /\ \A w \in Workers : task[w].err.code # "EBADF"

\* C19: what a task has written so far, the bytes of its range before its
\* current offset, are the source's bytes at the same offsets, whatever
\* the non-error results of its preads and pwrites.
C19_WrittenIsSource ==
    \A w \in Workers :
        task[w].state \in {"pread", "pwrite", "done", "failed"} =>
            Bytes(dst_data, task[w].worker_offset, task[w].offset)
              = Bytes(src_data, task[w].worker_offset, task[w].offset)

\* every call issued lies in the range of some task and below total_size
C20_CallsInRange ==
    \A c \in preads \cup pwrites :
        /\ c[1] + c[2] <= Len(src_data)
        /\ \E w \in Submitted :
             /\ task[w].worker_offset <= c[1]
             /\ c[1] + c[2] <= RangeEnd(task[w])

\* a step of a task keeps the destination's size and changes bytes of the
\* task's own range only; no step changes the source
C20_OwnRangeOnly ==
    /\ src_data' = src_data
    /\ task' # task /\ i' = i =>
         /\ Len(dst_data') = Len(dst_data)
         /\ \A k \in 1..Len(dst_data) :
              dst_data'[k] # dst_data[k] =>
                 \E w \in Workers :
                    /\ task'[w] # task[w]
                    /\ task[w].worker_offset <= k - 1
                    /\ k - 1 < RangeEnd(task[w])

\* C20: a task reads and writes only positions of its own range, leaves
\* every other destination byte unchanged, never writes to the source, and
\* never reads or writes at or beyond total_size.
C20_Frame == [] C20_CallsInRange /\ [][C20_OwnRangeOnly]_vars

C20_Witness ==
    /\ \E w \in Workers : task[w].state = "done" /\ task[w].read_size > 0
    /\ \E w \in Workers : task[w].state = "queued" /\ task[w].read_size > 0
    /\ dst_data # src_data

====
